---- MODULE Spec2Model ----
(***************************************************************************)
(* Model of bldb_ncbi_downloader.py: the reference extractor, the efetch   *)
(* query builder, the retrying fetcher and the main loop that ties them    *)
(* together.  Text is modelled as a sequence of one-character strings; the *)
(* fixed nuccore link prefix the extractor looks for is one symbol.        *)
(***************************************************************************)
EXTENDS Integers, Sequences, FiniteSets, TLC

VARIABLES
    pc,              \* position of the running call
    caller,          \* "test": fetch_fasta_sequence called directly; "main": called from main
    output_dir,      \* TRUE when --output-dir is given
    refs,            \* the reference occurrences the served page is made of
    html_content,    \* the text of the reference page
    page_gets,       \* number of GETs of the reference page
    page_status,     \* status of the reference page response (0: none)
    accessions,      \* result of extract_ncbi_accessions
    idx,             \* index of accession_obj in accessions (0 before the loop)
    accession_obj,   \* the Accession being handled / the builder's arguments
    files,           \* output directory: file name -> optional content
    printed,         \* FASTA texts printed on standard output (line 170)
    efetch_url,      \* the locator built for accession_obj
    retries,         \* fetch_fasta_sequence: retries
    attempt,         \* fetch_fasta_sequence: loop variable
    trace,           \* outcomes of the exchanges of the current fetch call
    pauses,          \* sleep(delay) calls of the current fetch call
    exhausted,       \* "Max retries reached" reports of the current fetch call
    fasta_sequence,  \* value returned by fetch_fasta_sequence
    paced,           \* sleep(0.5) calls of main
    handled,         \* what main did with each accession so far
    raised           \* exception that left the running call, "none" if none

vars == <<pc, caller, output_dir, refs, html_content, page_gets, page_status,
          accessions, idx, accession_obj, files, printed, efetch_url, retries,
          attempt, trace, pauses, exhausted, fasta_sequence, paced, handled, raised>>

----------------------------------------------------------------------------
(* Bounds *)
MaxRetries == 3
MaxRefs == 2
MaxPairs == 2

(* Program constants *)
DefaultRetries == 3

----------------------------------------------------------------------------
(* Optional[str] *)
None == [present |-> FALSE, text |-> <<>>]
Some(s) == [present |-> TRUE, text |-> s]
Truthy(o) == o.present /\ o.text # <<>>

(* Accession dataclass *)
Accession(a, f, t, s) ==
    [accession |-> a, from_position |-> f, to_position |-> t, strand |-> s]

NoAccession == Accession(<<>>, None, None, None)

----------------------------------------------------------------------------
(* Text helpers *)

(* index of the first c in s, 0 when there is none *)
RECURSIVE IndexFrom(_, _, _)
IndexFrom(s, c, p) ==
    IF p > Len(s) THEN 0
    ELSE IF s[p] = c THEN p
    ELSE IndexFrom(s, c, p + 1)

IndexOf(s, c) == IndexFrom(s, c, 1)

(* str.split(sep) for a one-character separator *)
RECURSIVE Split(_, _)
Split(s, sep) ==
    LET i == IndexOf(s, sep)
    IN  IF i = 0 THEN <<s>>
        ELSE <<SubSeq(s, 1, i - 1)>> \o Split(SubSeq(s, i + 1, Len(s)), sep)

(* str.split(sep, 1) on a string that contains sep *)
SplitFirst(s, sep) ==
    LET i == IndexOf(s, sep)
    IN  <<SubSeq(s, 1, i - 1), SubSeq(s, i + 1, Len(s))>>

(* str.replace('+', ' ') *)
ReplacePlus(s) == [i \in 1..Len(s) |-> IF s[i] = "+" THEN " " ELSE s[i]]

(* ASCII codes 32..95 and 97..126 *)
AsciiLow ==
    <<" ", "!", "\"", "#", "$", "%", "&", "'", "(", ")", "*", "+", ",",
      "-", ".", "/", "0", "1", "2", "3", "4", "5", "6", "7", "8", "9", ":",
      ";", "<", "=", ">", "?", "@", "A", "B", "C", "D", "E", "F", "G", "H",
      "I", "J", "K", "L", "M", "N", "O", "P", "Q", "R", "S", "T", "U", "V",
      "W", "X", "Y", "Z", "[", "\\", "]", "^", "_">>

AsciiHigh ==
    <<"a", "b", "c", "d", "e", "f", "g", "h", "i", "j", "k", "l", "m", "n",
      "o", "p", "q", "r", "s", "t", "u", "v", "w", "x", "y", "z", "{", "|",
      "}", "~">>

Decodable == (32..95) \cup (97..126)

Chr(code) == IF code <= 95 THEN AsciiLow[code - 31] ELSE AsciiHigh[code - 96]

HexVal ==
    ("0" :> 0) @@ ("1" :> 1) @@ ("2" :> 2) @@ ("3" :> 3) @@ ("4" :> 4) @@
    ("5" :> 5) @@ ("6" :> 6) @@ ("7" :> 7) @@ ("8" :> 8) @@ ("9" :> 9) @@
    ("a" :> 10) @@ ("b" :> 11) @@ ("c" :> 12) @@ ("d" :> 13) @@
    ("e" :> 14) @@ ("f" :> 15) @@ ("A" :> 10) @@ ("B" :> 11) @@
    ("C" :> 12) @@ ("D" :> 13) @@ ("E" :> 14) @@ ("F" :> 15)

IsHex(c) == c \in DOMAIN HexVal

(* urllib.parse.unquote: %XY becomes the character with that code; a %    *)
(* not followed by two hex digits stays as it is.  Only the codes of       *)
(* Decodable are modelled; any other escape is left undecoded.             *)
RECURSIVE Unquote(_)
Unquote(s) ==
    IF s = <<>> THEN <<>>
    ELSE IF s[1] = "%" /\ Len(s) >= 3 /\ IsHex(s[2]) /\ IsHex(s[3])
              /\ 16 * HexVal[s[2]] + HexVal[s[3]] \in Decodable
         THEN <<Chr(16 * HexVal[s[2]] + HexVal[s[3]])>>
                  \o Unquote(SubSeq(s, 4, Len(s)))
         ELSE <<s[1]>> \o Unquote(Tail(s))

(* urllib.parse.parse_qsl with its defaults: fields without '=' and       *)
(* fields with a blank value are dropped                                   *)
RECURSIVE ParseFields(_)
ParseFields(query_args) ==
    IF query_args = <<>> THEN <<>>
    ELSE LET name_value == Head(query_args)
             rest == ParseFields(Tail(query_args))
         IN  IF name_value = <<>> THEN rest
             ELSE IF IndexOf(name_value, "=") = 0 THEN rest
             ELSE LET nv == SplitFirst(name_value, "=")
                  IN  IF Len(nv[2]) = 0 THEN rest
                      ELSE <<[name |-> Unquote(ReplacePlus(nv[1])),
                              value |-> Unquote(ReplacePlus(nv[2]))]>> \o rest

parse_qsl(qs) == ParseFields(IF qs = <<>> THEN <<>> ELSE Split(qs, "&"))

RECURSIVE ValuesOf(_, _)
ValuesOf(pairs, name) ==
    IF pairs = <<>> THEN <<>>
    ELSE IF Head(pairs).name = name
         THEN <<Head(pairs).value>> \o ValuesOf(Tail(pairs), name)
         ELSE ValuesOf(Tail(pairs), name)

(* urllib.parse.parse_qs: name -> list of its values, in order *)
parse_qs(qs) ==
    LET pairs == parse_qsl(qs)
    IN  [name \in {pairs[i].name : i \in 1..Len(pairs)} |-> ValuesOf(pairs, name)]

GetLast(query_params, key) ==
    IF key \in DOMAIN query_params
    THEN Some(query_params[key][Len(query_params[key])])
    ELSE None

(* query_params.get(key, [None])[0] *)
GetFirst(query_params, key) ==
    IF key \in DOMAIN query_params THEN Some(query_params[key][1]) ELSE None

----------------------------------------------------------------------------
(* extract_ncbi_accessions *)

Quote == "\""
Prefix == "http://www.ncbi.nlm.nih.gov/nuccore/"

KeyFrom == <<"f", "r", "o", "m">>
KeyTo == <<"t", "o">>
KeyStrand == <<"s", "t", "r", "a", "n", "d">>

(* last index of the run of non-quote characters that holds position p *)
RECURSIVE RunEnd(_, _)
RunEnd(s, p) ==
    IF p < Len(s) /\ s[p + 1] # Quote THEN RunEnd(s, p + 1) ELSE p

(* re.findall(accession_pattern, html_content): the ([^"]+) groups of the  *)
(* leftmost non-overlapping matches                                        *)
RECURSIVE FindAllFrom(_, _)
FindAllFrom(s, p) ==
    IF p > Len(s) THEN <<>>
    ELSE IF s[p] = Prefix /\ p < Len(s) /\ s[p + 1] # Quote
         THEN LET e == RunEnd(s, p + 1)
              IN  <<SubSeq(s, p + 1, e)>> \o FindAllFrom(s, e + 1)
         ELSE FindAllFrom(s, p + 1)

FindAll(s) == FindAllFrom(s, 1)

AccessionOfMatch(match) ==
    IF IndexOf(match, "?") # 0
    THEN LET parts == SplitFirst(match, "?")
             query_params == parse_qs(parts[2])
         IN  Accession(parts[1],
                       GetFirst(query_params, KeyFrom),
                       GetFirst(query_params, KeyTo),
                       GetFirst(query_params, KeyStrand))
    ELSE Accession(match, None, None, None)

extract_ncbi_accessions(html) ==
    LET matches == FindAll(html)
    IN  [j \in 1..Len(matches) |-> AccessionOfMatch(matches[j])]

----------------------------------------------------------------------------
(* build_efetch_url *)

base_url ==
    <<"h", "t", "t", "p", "s", ":", "/", "/", "e", "u", "t", "i", "l", "s",
      ".", "n", "c", "b", "i", ".", "n", "l", "m", ".", "n", "i", "h", ".",
      "g", "o", "v", "/", "e", "n", "t", "r", "e", "z", "/", "e", "u", "t",
      "i", "l", "s", "/", "e", "f", "e", "t", "c", "h", ".", "f", "c", "g",
      "i">>

QDbId ==
    <<"?", "d", "b", "=", "n", "u", "c", "c", "o", "r", "e", "&", "i", "d",
      "=">>

QRet ==
    <<"&", "r", "e", "t", "t", "y", "p", "e", "=", "f", "a", "s", "t", "a",
      "&", "r", "e", "t", "m", "o", "d", "e", "=", "t", "e", "x", "t">>

QSeqStart ==
    <<"&", "s", "e", "q", "_", "s", "t", "a", "r", "t", "=">>

QSeqStop ==
    <<"&", "s", "e", "q", "_", "s", "t", "o", "p", "=">>

QStrand ==
    <<"&", "s", "t", "r", "a", "n", "d", "=">>

build_efetch_url_Either(accession, from_position, to_position, strand) ==
    LET url0 == base_url \o QDbId \o accession \o QRet
        url1 == IF Truthy(from_position) \/ Truthy(to_position)
                THEN url0 \o QSeqStart \o from_position.text
                          \o QSeqStop \o to_position.text
                ELSE url0
    IN  IF Truthy(strand) THEN url1 \o QStrand \o strand.text ELSE url1

build_efetch_url(accession, from_position, to_position, strand) ==
    LET url0 == base_url \o QDbId \o accession \o QRet
        url1 == IF Truthy(from_position) /\ Truthy(to_position)
                THEN url0 \o QSeqStart \o from_position.text
                          \o QSeqStop \o to_position.text
                ELSE url0
    IN  IF Truthy(strand) THEN url1 \o QStrand \o strand.text ELSE url1

----------------------------------------------------------------------------
(* The reference page: a list of reference occurrences, each an accession  *)
(* name with an optional query string made of '&'-joined fields.  Every    *)
(* field carries, beside its raw text, the decoded key and value it stands *)
(* for.                                                                    *)

Segments == {
    [raw |-> <<"f", "r", "o", "m", "=", "1", "0">>, hasEq |-> TRUE,
     key |-> <<"f", "r", "o", "m">>, value |-> <<"1", "0">>],
    [raw |-> <<"f", "r", "o", "m", "=", "9", "9">>, hasEq |-> TRUE,
     key |-> <<"f", "r", "o", "m">>, value |-> <<"9", "9">>],
    [raw |-> <<"f", "r", "o", "m", "=">>, hasEq |-> TRUE,
     key |-> <<"f", "r", "o", "m">>, value |-> <<>>],
    [raw |-> <<"t", "o", "=", "5", "0">>, hasEq |-> TRUE,
     key |-> <<"t", "o">>, value |-> <<"5", "0">>],
    [raw |-> <<"s", "t", "r", "a", "n", "d", "=", "2">>, hasEq |-> TRUE,
     key |-> <<"s", "t", "r", "a", "n", "d">>, value |-> <<"2">>],
    [raw |-> <<"F", "r", "o", "m", "=", "7">>, hasEq |-> TRUE,
     key |-> <<"F", "r", "o", "m">>, value |-> <<"7">>],
    [raw |-> <<"x", "=", "?">>, hasEq |-> TRUE,
     key |-> <<"x">>, value |-> <<"?">>],
    [raw |-> <<"f", "r", "o", "m">>, hasEq |-> FALSE,
     key |-> <<"f", "r", "o", "m">>, value |-> <<>>],
    [raw |-> <<>>, hasEq |-> FALSE,
     key |-> <<>>, value |-> <<>>],
    [raw |-> <<"t", "o", "=", "1", "+", "2">>, hasEq |-> TRUE,
     key |-> <<"t", "o">>, value |-> <<"1", " ", "2">>],
    [raw |-> <<"s", "t", "r", "a", "n", "d", "=", "%", "3", "1">>, hasEq |-> TRUE,
     key |-> <<"s", "t", "r", "a", "n", "d">>, value |-> <<"1">>],
    [raw |-> <<"f", "r", "%", "6", "F", "m", "=", "5">>, hasEq |-> TRUE,
     key |-> <<"f", "r", "o", "m">>, value |-> <<"5">>] }

Names == { <<"A", "1">>, <<"B">> }

Ref(a, q, segs) == [accession |-> a, hasQuery |-> q, segments |-> segs]

SeqsUpTo(S, n) == UNION { [1..k -> S] : k \in 0..n }

RECURSIVE JoinRaw(_)
JoinRaw(segs) ==
    IF segs = <<>> THEN <<>>
    ELSE IF Len(segs) = 1 THEN segs[1].raw
    ELSE segs[1].raw \o <<"&">> \o JoinRaw(Tail(segs))

RenderRef(r) ==
    <<"<", Prefix>> \o r.accession
        \o (IF r.hasQuery THEN <<"?">> \o JoinRaw(r.segments) ELSE <<>>)
        \o <<Quote, ">">>

RECURSIVE RenderPage(_)
RenderPage(rs) ==
    IF rs = <<>> THEN <<>> ELSE RenderRef(Head(rs)) \o RenderPage(Tail(rs))

----------------------------------------------------------------------------
(* The transport: what session.get can do *)
ConnError == [kind |-> "ConnectionError", status |-> 0, text |-> <<>>]
OtherError == [kind |-> "RequestException", status |-> 0, text |-> <<>>]
Response(st, body) == [kind |-> "Response", status |-> st, text |-> body]

Bodies == { <<>>, <<">", "s", "\n", "A", "C">>, <<">", "t", "\n", "G">> }
Statuses == {200, 304, 404, 503}

FetchOutcomes ==
    {ConnError, OtherError} \cup {Response(st, b) : st \in Statuses, b \in Bodies}

RaisesForStatus_ServerOnly(st) == 500 <= st /\ st < 600

(* response.raise_for_status(): HTTPError for 4xx and 5xx *)
RaisesForStatus(st) == 400 <= st /\ st < 600

Ok_Only2xx(st) == 200 <= st /\ st < 300

(* response.ok *)
Ok(st) == ~RaisesForStatus(st)

ShouldPause_Always(a, r) == a < r

(* line 117: a pause follows every failed attempt but the last *)
ShouldPause(a, r) == a < r - 1

AfterFetch == IF caller = "main" THEN "persist" ELSE "returned"

----------------------------------------------------------------------------
(* fetch_fasta_sequence *)

fetchFrame == <<caller, output_dir, refs, html_content, page_gets, page_status,
                accessions, idx, accession_obj, files, printed, efetch_url,
                retries, paced, handled>>

(* one iteration of the retry loop *)
Exchange(outcomes) ==
    /\ pc = "fetch"
    /\ attempt < retries
    /\ \E o \in outcomes :
        /\ trace' = Append(trace, o)
        /\ \/ /\ o.kind = "Response"
              /\ Ok(o.status)
              /\ fasta_sequence' = Some(o.text)
              /\ pc' = AfterFetch
              /\ UNCHANGED <<attempt, pauses, exhausted, raised>>
           \/ /\ o.kind = "Response"
              /\ ~Ok(o.status)
              /\ attempt' = attempt + 1
              /\ UNCHANGED <<pc, fasta_sequence, pauses, exhausted, raised>>
           \/ /\ o.kind = "ConnectionError"
              /\ ShouldPause(attempt, retries)
              /\ pauses' = pauses + 1
              /\ attempt' = attempt + 1
              /\ UNCHANGED <<pc, fasta_sequence, exhausted, raised>>
           \/ /\ o.kind = "ConnectionError"
              /\ ~ShouldPause(attempt, retries)
              /\ exhausted' = exhausted + 1
              /\ attempt' = attempt + 1
              /\ UNCHANGED <<pc, fasta_sequence, pauses, raised>>
           \/ /\ o.kind = "RequestException"
              /\ raised' = "RequestException"
              /\ pc' = "aborted"
              /\ UNCHANGED <<attempt, fasta_sequence, pauses, exhausted>>
    /\ UNCHANGED fetchFrame

(* the loop is over: return None *)
ReturnNone ==
    /\ pc = "fetch"
    /\ ~(attempt < retries)
    /\ fasta_sequence' = None
    /\ pc' = AfterFetch
    /\ UNCHANGED <<attempt, trace, pauses, exhausted, raised>>
    /\ UNCHANGED fetchFrame

FetchExchange == Exchange(FetchOutcomes)

InitFetch ==
    /\ pc = "fetch"
    /\ caller = "test"
    /\ output_dir = FALSE
    /\ refs = <<>>
    /\ html_content = <<>>
    /\ page_gets = 0
    /\ page_status = 0
    /\ accessions = <<>>
    /\ idx = 0
    /\ accession_obj = NoAccession
    /\ files = <<>>
    /\ printed = <<>>
    /\ efetch_url = <<>>
    /\ retries \in 1..MaxRetries
    /\ attempt = 0
    /\ trace = <<>>
    /\ pauses = 0
    /\ exhausted = 0
    /\ fasta_sequence = None
    /\ paced = 0
    /\ handled = <<>>
    /\ raised = "none"

NextFetch == FetchExchange \/ ReturnNone

SpecFetch == InitFetch /\ [][NextFetch]_vars

----------------------------------------------------------------------------
IsConn(o) == o.kind = "ConnectionError"
IsOk(o) == o.kind = "Response" /\ o.status < 400
IsRejected(o) == o.kind = "Response" /\ o.status >= 400

Min(a, b) == IF a < b THEN a ELSE b

(* C1: when the transport raises a connectivity failure on attempts 1..k   *)
(* (k < retries) and answers with success on attempt k+1, the call returns *)
(* the body of attempt k+1 after exactly k+1 exchanges and exactly k       *)
(* pauses.                                                                 *)
C1_RetryThenSuccess ==
    \A k \in 0..(retries - 1) :
        ( /\ caller = "test"
          /\ Len(trace) >= k + 1
          /\ \A j \in 1..k : IsConn(trace[j])
          /\ IsOk(trace[k + 1]) )
        => /\ pc = "returned"
           /\ raised = "none"
           /\ fasta_sequence = Some(trace[k + 1].text)
           /\ Len(trace) = k + 1
           /\ pauses = k
           /\ exhausted = 0

C1_Witness ==
    /\ caller = "test"
    /\ pc = "returned"
    /\ retries = 3
    /\ Len(trace) = 3
    /\ IsConn(trace[1]) /\ IsConn(trace[2]) /\ IsOk(trace[3])
    /\ trace[3].text # <<>>
    /\ pauses = 2

(* C2: when every attempt raises a connectivity failure, the call returns  *)
(* None without raising after exactly retries exchanges, with retries - 1  *)
(* pauses (one after each attempt but the last) and one exhaustion report, *)
(* made on the last attempt.                                               *)
C2_AllAttemptsFail ==
    ( /\ caller = "test"
      /\ \A j \in 1..Len(trace) : IsConn(trace[j]) )
    => /\ pauses = Min(Len(trace), retries - 1)
       /\ exhausted = (IF Len(trace) = retries THEN 1 ELSE 0)
       /\ Len(trace) <= retries
       /\ raised = "none"
       /\ pc = "returned" =>
            /\ fasta_sequence = None
            /\ Len(trace) = retries
            /\ pauses = retries - 1
            /\ exhausted = 1

C2_Witness ==
    /\ caller = "test"
    /\ pc = "returned"
    /\ retries = 3
    /\ Len(trace) = 3
    /\ \A j \in 1..3 : IsConn(trace[j])
    /\ fasta_sequence = None

(* C3: once an exchange completes with a non-success status, the call      *)
(* makes no further exchange, takes no pause, raises nothing and returns   *)
(* None.                                                                   *)
C3_NoRetryOnStatus ==
    \A j \in 1..Len(trace) :
        (caller = "test" /\ IsRejected(trace[j]))
        => /\ Len(trace) = j
           /\ raised = "none"
           /\ pc = "returned" => fasta_sequence = None

----------------------------------------------------------------------------
(* Initial values of the parts of the state a call does not use *)

NoPage ==
    /\ refs = <<>>
    /\ html_content = <<>>
    /\ page_gets = 0
    /\ page_status = 0
    /\ accessions = <<>>

NoLoop ==
    /\ output_dir = FALSE
    /\ idx = 0
    /\ files = <<>>
    /\ printed = <<>>
    /\ paced = 0
    /\ handled = <<>>

NoFetch ==
    /\ retries = DefaultRetries
    /\ attempt = 0
    /\ trace = <<>>
    /\ pauses = 0
    /\ exhausted = 0
    /\ fasta_sequence = None

----------------------------------------------------------------------------
(* build_efetch_url called on its own *)

Optionals(S) == {None} \cup {Some(s) : s \in S}

UrlNames == { <<"X", "1">>, <<"A", "1">> }
UrlPositions == { <<>>, <<"5">>, <<"2", "0">> }
UrlStrands == { <<>>, <<"2">> }

InitUrl ==
    /\ pc = "build"
    /\ caller = "url"
    /\ accession_obj \in
         { Accession(a, f, t, s) : a \in UrlNames,
                                   f \in Optionals(UrlPositions),
                                   t \in Optionals(UrlPositions),
                                   s \in Optionals(UrlStrands) }
    /\ efetch_url = <<>>
    /\ raised = "none"
    /\ NoPage /\ NoLoop /\ NoFetch

BuildUrl ==
    /\ pc = "build"
    /\ efetch_url' = build_efetch_url(accession_obj.accession,
                                      accession_obj.from_position,
                                      accession_obj.to_position,
                                      accession_obj.strand)
    /\ pc' = "built"
    /\ UNCHANGED <<caller, output_dir, refs, html_content, page_gets,
                   page_status, accessions, idx, accession_obj, files, printed,
                   retries, attempt, trace, pauses, exhausted, fasta_sequence,
                   paced, handled, raised>>

NextUrl == BuildUrl

SpecUrl == InitUrl /\ [][NextUrl]_vars

(* number of places where sub occurs in s *)
CountOf(s, sub) ==
    Cardinality({ p \in 1..Len(s) :
                    /\ p + Len(sub) - 1 <= Len(s)
                    /\ SubSeq(s, p, p + Len(sub) - 1) = sub })

StartsWith(s, pre) == Len(pre) <= Len(s) /\ SubSeq(s, 1, Len(pre)) = pre

EndsWith(s, suf) ==
    Len(suf) <= Len(s) /\ SubSeq(s, Len(s) - Len(suf) + 1, Len(s)) = suf

(* C8: the locator is the fixed head with the accession; right after it    *)
(* comes exactly one seq_start/seq_stop segment with the unmodified values *)
(* iff both positions are present and non-empty; it ends with the strand   *)
(* segment iff strand is present and non-empty; and it holds nothing else. *)
C8_Locator ==
    (caller = "url" /\ pc = "built") =>
        LET a == accession_obj
            both == /\ a.from_position.present /\ a.from_position.text # <<>>
                    /\ a.to_position.present /\ a.to_position.text # <<>>
            withStrand == a.strand.present /\ a.strand.text # <<>>
            head == base_url \o QDbId \o a.accession \o QRet
            range == QSeqStart \o a.from_position.text
                         \o QSeqStop \o a.to_position.text
            tail == QStrand \o a.strand.text
        IN  /\ StartsWith(efetch_url, head)
            /\ CountOf(efetch_url, QSeqStart) = (IF both THEN 1 ELSE 0)
            /\ CountOf(efetch_url, QSeqStop) = (IF both THEN 1 ELSE 0)
            /\ both => SubSeq(efetch_url, Len(head) + 1,
                              Len(head) + Len(range)) = range
            /\ CountOf(efetch_url, QStrand) = (IF withStrand THEN 1 ELSE 0)
            /\ withStrand => EndsWith(efetch_url, tail)
            /\ Len(efetch_url) = Len(head) + (IF both THEN Len(range) ELSE 0)
                                   + (IF withStrand THEN Len(tail) ELSE 0)

C8_Witness ==
    /\ caller = "url"
    /\ pc = "built"
    /\ accession_obj = Accession(<<"X", "1">>, Some(<<"5">>),
                                 Some(<<"2", "0">>), None)
    /\ CountOf(efetch_url, QSeqStart \o <<"5">> \o QSeqStop \o <<"2", "0">>) = 1
    /\ CountOf(efetch_url, QStrand) = 0

----------------------------------------------------------------------------
(* extract_ncbi_accessions called on its own *)

SegFrom10 == CHOOSE s \in Segments : s.raw = <<"f", "r", "o", "m", "=", "1", "0">>
SegFrom99 == CHOOSE s \in Segments : s.raw = <<"f", "r", "o", "m", "=", "9", "9">>
SegFromBlank == CHOOSE s \in Segments : s.raw = <<"f", "r", "o", "m", "=">>
SegTo50 == CHOOSE s \in Segments : s.raw = <<"t", "o", "=", "5", "0">>

SimpleRefs ==
    { Ref(<<"A", "1">>, FALSE, <<>>),
      Ref(<<"B">>, FALSE, <<>>),
      Ref(<<"A", "1">>, TRUE, <<SegFrom10, SegTo50>>) }

RichRefs ==
    { Ref(a, FALSE, <<>>) : a \in Names }
        \cup { Ref(a, TRUE, segs) : a \in Names, segs \in SeqsUpTo(Segments, MaxPairs) }

ExtractInputs ==
    {<<>>} \cup { <<r>> : r \in RichRefs }
           \cup { <<r, s>> : r \in RichRefs, s \in SimpleRefs }

InitExtract ==
    /\ pc = "extract"
    /\ caller = "extract"
    /\ refs \in ExtractInputs
    /\ html_content = RenderPage(refs)
    /\ page_gets = 0
    /\ page_status = 0
    /\ accessions = <<>>
    /\ accession_obj = NoAccession
    /\ efetch_url = <<>>
    /\ raised = "none"
    /\ NoLoop /\ NoFetch

Extract ==
    /\ pc = "extract"
    /\ accessions' = extract_ncbi_accessions(html_content)
    /\ pc' = "extracted"
    /\ UNCHANGED <<caller, output_dir, refs, html_content, page_gets,
                   page_status, idx, accession_obj, files, printed, efetch_url,
                   retries, attempt, trace, pauses, exhausted, fasta_sequence,
                   paced, handled, raised>>

NextExtract == Extract

SpecExtract == InitExtract /\ [][NextExtract]_vars

(* the value of the first key=value field of segs with key k, blank or not *)
RECURSIVE FirstOccurrence(_, _)
FirstOccurrence(segs, k) ==
    IF segs = <<>> THEN None
    ELSE IF Head(segs).hasEq /\ Head(segs).key = k THEN Some(Head(segs).value)
    ELSE FirstOccurrence(Tail(segs), k)

(* the value of the first key=value field of segs with key k and a value   *)
(* that is not blank                                                       *)
RECURSIVE FirstNonBlank(_, _)
FirstNonBlank(segs, k) ==
    IF segs = <<>> THEN None
    ELSE IF Head(segs).hasEq /\ Head(segs).key = k /\ Head(segs).value # <<>>
         THEN Some(Head(segs).value)
    ELSE FirstNonBlank(Tail(segs), k)

NeverBlank(acc) ==
    /\ acc.from_position # Some(<<>>)
    /\ acc.to_position # Some(<<>>)
    /\ acc.strand # Some(<<>>)

(* C9 as stated: for an occurrence with a '?', the accession is the text   *)
(* left of the first '?', each of from/to/strand is the value of the first *)
(* field with that key (also when that value is blank), None when the key  *)
(* does not occur, and never the empty string.                             *)
C9_FirstOccurrenceWins ==
    (caller = "extract" /\ pc = "extracted") =>
        /\ Len(accessions) = Len(refs)
        /\ \A j \in 1..Len(refs) :
            refs[j].hasQuery =>
                /\ accessions[j].accession = refs[j].accession
                /\ accessions[j].from_position = FirstOccurrence(refs[j].segments, KeyFrom)
                /\ accessions[j].to_position = FirstOccurrence(refs[j].segments, KeyTo)
                /\ accessions[j].strand = FirstOccurrence(refs[j].segments, KeyStrand)
                /\ NeverBlank(accessions[j])

(* C9 amended: for an occurrence with a '?', the accession is the text     *)
(* left of the first '?', each of from/to/strand is the decoded value of   *)
(* the first field whose decoded key is that key and whose value is not    *)
(* blank, None when there is no such field, and never the empty string.    *)
C9_FirstNonBlankWins ==
    (caller = "extract" /\ pc = "extracted") =>
        /\ Len(accessions) = Len(refs)
        /\ \A j \in 1..Len(refs) :
            refs[j].hasQuery =>
                /\ accessions[j].accession = refs[j].accession
                /\ accessions[j].from_position = FirstNonBlank(refs[j].segments, KeyFrom)
                /\ accessions[j].to_position = FirstNonBlank(refs[j].segments, KeyTo)
                /\ accessions[j].strand = FirstNonBlank(refs[j].segments, KeyStrand)
                /\ NeverBlank(accessions[j])

C9_Witness ==
    /\ caller = "extract"
    /\ pc = "extracted"
    /\ Len(refs) >= 1
    /\ refs[1].segments = <<SegFromBlank, SegFrom99>>
    /\ accessions[1].from_position = Some(<<"9", "9">>)
    /\ accessions[1].to_position = None

----------------------------------------------------------------------------
(* main *)

OldText == <<"o", "l", "d">>

(* os.path.join(output_dir, f"{accession}.fasta"), relative to output_dir *)
FilePath(accession) == accession \o <<".", "f", "a", "s", "t", "a">>

FilePaths == { FilePath(a) : a \in Names }

FileExists_Never(file_path) == FALSE

(* os.path.exists(file_path) *)
FileExists(file_path) == files[file_path].present

PageRefs == SeqsUpTo(SimpleRefs, MaxRefs)

MainOutcomes ==
    {ConnError, OtherError, Response(404, <<>>)}
        \cup { Response(200, b) : b \in Bodies }

Handled(acc, action) ==
    [name |-> acc.accession, action |-> action, result |-> fasta_sequence,
     exchanges |-> Len(trace)]

InitMain ==
    /\ pc = "start"
    /\ caller = "main"
    /\ output_dir \in BOOLEAN
    /\ refs \in PageRefs
    /\ html_content = RenderPage(refs)
    /\ page_gets = 0
    /\ page_status = 0
    /\ accessions = <<>>
    /\ idx = 0
    /\ accession_obj = NoAccession
    /\ files \in [FilePaths -> {None, Some(OldText)}]
    /\ output_dir = FALSE => \A p \in FilePaths : files[p] = None
    /\ printed = <<>>
    /\ efetch_url = <<>>
    /\ paced = 0
    /\ handled = <<>>
    /\ raised = "none"
    /\ NoFetch

(* lines 141-146: the reference page is fetched and the accessions are     *)
(* extracted from it                                                       *)
FetchPage ==
    /\ pc = "start"
    /\ page_gets' = page_gets + 1
    /\ \E o \in {ConnError, OtherError}
                  \cup { Response(st, html_content) : st \in Statuses } :
        \/ /\ o.kind # "Response"
           /\ raised' = o.kind
           /\ pc' = "aborted"
           /\ UNCHANGED <<page_status, accessions, idx>>
        \/ /\ o.kind = "Response"
           /\ RaisesForStatus(o.status)
           /\ page_status' = o.status
           /\ raised' = "HTTPError"
           /\ pc' = "aborted"
           /\ UNCHANGED <<accessions, idx>>
        \/ /\ o.kind = "Response"
           /\ ~RaisesForStatus(o.status)
           /\ page_status' = o.status
           /\ accessions' = extract_ncbi_accessions(o.text)
           /\ idx' = 1
           /\ pc' = "loop"
           /\ UNCHANGED raised
    /\ UNCHANGED <<caller, output_dir, refs, html_content, accession_obj,
                   files, printed, efetch_url, retries, attempt, trace, pauses,
                   exhausted, fasta_sequence, paced, handled>>

LoopSkip_Paced ==
    /\ pc = "loop"
    /\ idx <= Len(accessions)
    /\ output_dir
    /\ FileExists(FilePath(accessions[idx].accession))
    /\ accession_obj' = accessions[idx]
    /\ handled' = Append(handled, Handled(accessions[idx], "skipped"))
    /\ idx' = idx + 1
    /\ paced' = paced + 1
    /\ UNCHANGED <<pc, caller, output_dir, refs, html_content, page_gets,
                   page_status, accessions, files, printed, efetch_url,
                   retries, attempt, trace, pauses, exhausted, fasta_sequence,
                   raised>>

(* lines 148-154: the file of the next accession exists, skip it *)
LoopSkip ==
    /\ pc = "loop"
    /\ idx <= Len(accessions)
    /\ output_dir
    /\ FileExists(FilePath(accessions[idx].accession))
    /\ accession_obj' = accessions[idx]
    /\ handled' = Append(handled, Handled(accessions[idx], "skipped"))
    /\ idx' = idx + 1
    /\ UNCHANGED <<pc, caller, output_dir, refs, html_content, page_gets,
                   page_status, accessions, files, printed, efetch_url,
                   retries, attempt, trace, pauses, exhausted, fasta_sequence,
                   paced, raised>>

(* lines 148-162: the locator of the next accession is built and           *)
(* fetch_fasta_sequence is entered with its default retries                *)
LoopFetch ==
    /\ pc = "loop"
    /\ idx <= Len(accessions)
    /\ ~(output_dir /\ FileExists(FilePath(accessions[idx].accession)))
    /\ accession_obj' = accessions[idx]
    /\ efetch_url' = build_efetch_url(accessions[idx].accession,
                                      accessions[idx].from_position,
                                      accessions[idx].to_position,
                                      accessions[idx].strand)
    /\ retries' = DefaultRetries
    /\ attempt' = 0
    /\ trace' = <<>>
    /\ pauses' = 0
    /\ exhausted' = 0
    /\ pc' = "fetch"
    /\ UNCHANGED <<caller, output_dir, refs, html_content, page_gets,
                   page_status, accessions, idx, files, printed,
                   fasta_sequence, paced, handled, raised>>

MainExchange == Exchange(MainOutcomes)

(* lines 164-173: the fetched text is saved or printed, or the failure is  *)
(* reported; then main pauses and goes on with the next accession          *)
Persist ==
    /\ pc = "persist"
    /\ \/ /\ Truthy(fasta_sequence)
          /\ output_dir
          /\ files' = [files EXCEPT ![FilePath(accession_obj.accession)] =
                                        Some(fasta_sequence.text)]
          /\ handled' = Append(handled, Handled(accession_obj, "written"))
          /\ paced' = paced + 1
          /\ idx' = idx + 1
          /\ pc' = "loop"
          /\ UNCHANGED <<printed, raised>>
       \/ /\ Truthy(fasta_sequence)
          /\ output_dir
          /\ raised' = "OSError"
          /\ pc' = "aborted"
          /\ UNCHANGED <<files, handled, paced, idx, printed>>
       \/ /\ Truthy(fasta_sequence)
          /\ ~output_dir
          /\ printed' = Append(printed, fasta_sequence.text)
          /\ handled' = Append(handled, Handled(accession_obj, "printed"))
          /\ paced' = paced + 1
          /\ idx' = idx + 1
          /\ pc' = "loop"
          /\ UNCHANGED <<files, raised>>
       \/ /\ ~Truthy(fasta_sequence)
          /\ handled' = Append(handled, Handled(accession_obj, "failed"))
          /\ paced' = paced + 1
          /\ idx' = idx + 1
          /\ pc' = "loop"
          /\ UNCHANGED <<files, printed, raised>>
    /\ attempt' = 0
    /\ trace' = <<>>
    /\ pauses' = 0
    /\ exhausted' = 0
    /\ UNCHANGED <<caller, output_dir, refs, html_content, page_gets,
                   page_status, accessions, accession_obj, efetch_url, retries,
                   fasta_sequence>>

(* the loop over accessions is over *)
Finish ==
    /\ pc = "loop"
    /\ idx > Len(accessions)
    /\ pc' = "done"
    /\ UNCHANGED <<caller, output_dir, refs, html_content, page_gets,
                   page_status, accessions, idx, accession_obj, files, printed,
                   efetch_url, retries, attempt, trace, pauses, exhausted,
                   fasta_sequence, paced, handled, raised>>

NextMain ==
    FetchPage \/ LoopSkip \/ LoopFetch \/ MainExchange \/ ReturnNone
        \/ Persist \/ Finish

SpecMain == InitMain /\ [][NextMain]_vars

----------------------------------------------------------------------------
(* Properties of main *)

IsWritten(h) == h.action = "written"

(* C4: no failure of the fetch or the persistence of one accession aborts  *)
(* the run: once the loop over the accessions has begun, main never ends   *)
(* with an exception.                                                      *)
C4_FailuresAreLocal ==
    (caller = "main" /\ idx >= 1) => (pc # "aborted" /\ raised = "none")

PageFailed == page_gets >= 1 /\ page_status = 0

NothingDone ==
    /\ pc = "aborted"
    /\ raised # "none"
    /\ accessions = <<>>
    /\ idx = 0
    /\ handled = <<>>
    /\ trace = <<>>
    /\ printed = <<>>
    /\ \A p \in FilePaths : files[p] \in {None, Some(OldText)}

(* C5 as stated: the reference page is requested once; when the request    *)
(* fails or answers with a status outside 200..299, the run aborts with    *)
(* nothing extracted, requested or written.                                *)
C5_Non2xxIsFatal ==
    (caller = "main" /\ pc # "start") =>
        /\ page_gets = 1
        /\ (PageFailed \/ page_status \notin 200..299) => NothingDone

(* C5 amended: the reference page is requested once; when the request      *)
(* fails or answers with a 4xx or 5xx status, the run aborts with nothing  *)
(* extracted, requested or written.                                        *)
C5_ErrorStatusIsFatal ==
    (caller = "main" /\ pc # "start") =>
        /\ page_gets = 1
        /\ (PageFailed \/ page_status \in 400..599) => NothingDone

C5_Witness ==
    /\ caller = "main"
    /\ pc = "aborted"
    /\ page_gets = 1
    /\ page_status = 404
    /\ refs # <<>>
    /\ raised = "HTTPError"

(* C6: every accession whose fetch returned the body of a success          *)
(* response, an empty body included, has that body written to its file     *)
(* (output directory configured) or printed (none configured).             *)
C6_SuccessIsDelivered ==
    \A j \in 1..Len(handled) :
        (caller = "main" /\ handled[j].result.present) =>
            IF output_dir
            THEN /\ handled[j].action = "written"
                 /\ files[FilePath(handled[j].name)].present
            ELSE /\ handled[j].action = "printed"
                 /\ \E n \in 1..Len(printed) : printed[n] = handled[j].result.text

(* C7: with an output directory, an accession whose file exists when its   *)
(* turn comes is passed over in one step: no request, the files unchanged, *)
(* no pause, nothing printed or raised, and the loop is at the next        *)
(* accession.                                                              *)
C7_ExistingFileSkipped ==
    [][ ( /\ caller = "main"
          /\ pc = "loop"
          /\ idx <= Len(accessions)
          /\ output_dir
          /\ files[FilePath(accessions[idx].accession)].present )
        => /\ files' = files
           /\ trace' = <<>>
           /\ attempt' = attempt
           /\ paced' = paced
           /\ pauses' = pauses
           /\ printed' = printed
           /\ raised' = "none"
           /\ pc' = "loop"
           /\ idx' = idx + 1
           /\ Len(handled') = idx
           /\ handled'[idx].exchanges = 0 ]_vars

C7_Witness ==
    /\ caller = "main"
    /\ pc = "done"
    /\ output_dir
    /\ Len(handled) = 2
    /\ handled[1].action = "skipped"
    /\ handled[1].exchanges = 0
    /\ handled[2].action = "written"
    /\ files[FilePath(handled[1].name)] = Some(OldText)
    /\ paced = 1

(* C10: with an output directory, accessions are handled in extractor      *)
(* order; a file is written at most once per accession name; it is written *)
(* by the first occurrence whose fetch returned a non-empty body, holds    *)
(* that body from then on, and every later occurrence of the name is       *)
(* skipped without a request.                                              *)
C10_WrittenOnce ==
    (caller = "main" /\ output_dir) =>
        /\ Len(handled) <= Len(accessions)
        /\ \A j \in 1..Len(handled) : handled[j].name = accessions[j].accession
        /\ \A j \in 1..Len(handled) :
            IsWritten(handled[j]) =>
                /\ handled[j].result.present
                /\ handled[j].result.text # <<>>
                /\ files[FilePath(handled[j].name)] = Some(handled[j].result.text)
                /\ \A i \in 1..(j - 1) :
                    handled[i].name = handled[j].name =>
                        /\ handled[i].action = "failed"
                        /\ handled[i].result \in {None, Some(<<>>)}
                /\ \A i \in (j + 1)..Len(handled) :
                    handled[i].name = handled[j].name =>
                        /\ handled[i].action = "skipped"
                        /\ handled[i].exchanges = 0
        /\ \A p \in FilePaths :
            Cardinality({ j \in 1..Len(handled) :
                            IsWritten(handled[j]) /\ FilePath(handled[j].name) = p }) <= 1

C10_Witness ==
    /\ caller = "main"
    /\ output_dir
    /\ pc = "done"
    /\ Len(handled) = 2
    /\ handled[1].name = handled[2].name
    /\ accessions[1] # accessions[2]
    /\ handled[1].action = "written"
    /\ handled[2].action = "skipped"
    /\ files[FilePath(handled[1].name)] = Some(handled[1].result.text)

====
